---- MODULE Spec2Model ----
(***************************************************************************)
(* Model of the insider-trade streaming pipeline:                          *)
(*   src/app/internals/utils.py  - the Trade Extractor (pure functions)     *)
(*   src/stream.py               - classifier, detail fetcher, filter,      *)
(*                                 fan-out and the connection manager       *)
(* Two specifications share the module:                                    *)
(*   SpecExtract - the extractor applied to every filing document of a     *)
(*                 bounded set;                                            *)
(*   Spec        - the connection manager, the keepalive task and the      *)
(*                 per-event pipeline of stream.py.                        *)
(***************************************************************************)
EXTENDS Integers, Sequences, FiniteSets, TLC

\* ------------------------------------------------------------------ bounds
\* Longest transaction table of a filing document drawn by SpecExtract.
MaxTx == 3
\* Longest batch of filing events carried by one stream message.
MaxBatch == 2

\* ------------------------------------------------------- program constants
\* stream.py:139
max_retries == 10

\* A key that is missing from a JSON object (dict.get falls back to its default).
Absent == "absent"
\* An optional number: <<>> when the key is missing, <<n>> when it holds n.
Missing == <<>>
Some(n) == <<n>>
\* dict.get(key, default) on an optional number
GetOr(opt, default) == IF opt = Missing THEN default ELSE opt[1]

\* Transaction coding codes: purchase, sale, and one non-qualifying code (award).
Codes == {"P", "S", "A"}

\* ---------------------------------------------------------------- variables
VARIABLES
    doc,            \* SpecExtract: the filing document handed to the extractor
    out,            \* SpecExtract: the outcome of the call (state "pending" before it)
    mgr,            \* main(): where the manager coroutine stands
    retry_counter,  \* main(): retry_counter
    ws,             \* the websocket of the current connection: "none" | "open" | "closed"
    ping,           \* the keepalive task (ping_task / send_ping)
    pending,        \* the events of the received message not yet handed to on_filings
    cur,            \* the pipeline of the event on_filings is processing
    consecFailed,   \* history: connect attempts failed in a row
    dropCause,      \* history: what ended the current connection
    dropped         \* history: an established connection has been lost

vars == <<doc, out, mgr, retry_counter, ws, ping, pending, cur, consecFailed, dropCause, dropped>>
extractVars == <<doc, out>>
streamVars == <<mgr, retry_counter, ws, ping, pending, cur, consecFailed, dropCause, dropped>>

\* ============================================================ utils.py
\* transaction["amounts"].get("pricePerShare", 0)
PriceOf(tx) == GetOr(tx.price, 0)

\* A seeded slip: the first entry of the group is read.
extract_first_item(group) ==
    IF group = <<>> THEN 0 ELSE GetOr(group[1], 0)

\* extract_last_item: group[-1].get('sharesOwnedFollowingTransaction', 0) if group else 0
\* (group is the list of the sharesOwnedFollowingTransaction fields collected)
extract_last_item(group) ==
    IF group = <<>> THEN 0 ELSE GetOr(group[Len(group)], 0)

\* get_all_codings: the coding codes in table order
get_all_codings(transactions) == [i \in 1..Len(transactions) |-> transactions[i].code]

\* The keys of the dict built by group_transaction_by_coding, in insertion order.
RECURSIVE KeysInOrder(_, _)
KeysInOrder(txs, seen) ==
    IF txs = <<>> THEN <<>>
    ELSE IF Head(txs).code \in seen THEN KeysInOrder(Tail(txs), seen)
         ELSE <<Head(txs).code>> \o KeysInOrder(Tail(txs), seen \cup {Head(txs).code})

\* A seeded slip: a new group is opened whenever the code changes from one row to
\* the next (itertools.groupby on an unsorted table) instead of one group per code.
RECURSIVE RunsOf(_)
RunsOf(txs) ==
    IF txs = <<>> THEN <<>>
    ELSE IF Len(txs) > 1 /\ txs[2].code = txs[1].code
         THEN LET r == RunsOf(Tail(txs))
              IN  <<[code |-> txs[1].code, txs |-> <<txs[1]>> \o r[1].txs]>> \o Tail(r)
         ELSE <<[code |-> txs[1].code, txs |-> <<txs[1]>>]>> \o RunsOf(Tail(txs))

group_by_runs(transactions) == RunsOf(transactions)

\* group_transaction_by_coding: code -> the transactions of that code, as the ordered
\* (code, transactions) items of the dict.
group_transaction_by_coding(transactions) ==
    LET keys == KeysInOrder(transactions, {})
    IN  [i \in 1..Len(keys) |->
            [code |-> keys[i],
             txs  |-> SelectSeq(transactions, LAMBDA t : t.code = keys[i])]]

\* A seeded slip: every coding group is processed.
IsQualifying_Any(code) == TRUE

\* if code in ["P", "S"]
IsQualifying(code) == code \in {"P", "S"}

RECURSIVE SumShares(_)
SumShares(txs) ==
    IF txs = <<>> THEN 0 ELSE Head(txs).shares + SumShares(Tail(txs))

\* A seeded slip: the price is left out of the product.
SumSpent_NoPrice(txs) == SumShares(txs)

RECURSIVE SumSpent(_)
SumSpent(txs) ==
    IF txs = <<>> THEN 0 ELSE Head(txs).shares * PriceOf(Head(txs)) + SumSpent(Tail(txs))

\* grouped_transactions['D']: postTransactionAmounts of the rows that are not "I"
DirectAfter(txs) ==
    LET d == SelectSeq(txs, LAMBDA t : t.own # "I")
    IN  [i \in 1..Len(d) |-> d[i].after]

\* grouped_transactions['indirect'][nature]
IndirectAfter(txs, nature) ==
    LET g == SelectSeq(txs, LAMBDA t : t.own = "I" /\ t.nature = nature)
    IN  [i \in 1..Len(g) |-> g[i].after]

IndirectNatures(txs) == {txs[i].nature : i \in {j \in 1..Len(txs) : txs[j].own = "I"}}

RECURSIVE SumLastIndirect(_, _)
SumLastIndirect(natures, txs) ==
    IF natures = {} THEN 0
    ELSE LET n == CHOOSE x \in natures : TRUE
         IN  extract_last_item(IndirectAfter(txs, n)) + SumLastIndirect(natures \ {n}, txs)

\* the holdings loop: every holding that carries sharesOwnedFollowingTransaction
RECURSIVE SumHoldings(_)
SumHoldings(holdings) ==
    IF holdings = <<>> THEN 0
    ELSE GetOr(Head(holdings).after, 0) + SumHoldings(Tail(holdings))

\* A seeded slip: the holdings loop is left out.
SharesAfter_NoHoldings(d, txs) ==
    extract_last_item(DirectAfter(txs)) + SumLastIndirect(IndirectNatures(txs), txs)

\* total_shares_after_purchase of one group
SharesAfter(d, txs) ==
    extract_last_item(DirectAfter(txs)) + SumLastIndirect(IndirectNatures(txs), txs)
    + SumHoldings(d.holdings)

\* trade_returns = {'one_week_return': None, ...}: the value of every return field
None == "None"

\* ZeroDivisionError raised by the / operator, as a value no percentage takes.
ZeroDivision == 0 - 1

\* floor(n * 10^k / d) and the remainder, by long division (d > 0), so that no
\* intermediate value exceeds 10 * d.
RECURSIVE LongDiv(_, _, _)
LongDiv(n, d, k) ==
    IF k = 0 THEN <<n \div d, n % d>>
    ELSE LET p == LongDiv(n, d, k - 1)
         IN  <<10 * p[1] + (10 * p[2]) \div d, (10 * p[2]) % d>>

\* round((total_shares / after) * 100, 4), in units of 0.0001: the quotient to
\* four decimals, rounded to the nearest (the float is never an exact tie for the
\* values of the model); the division raises when after is 0.
PyPercent(total_shares, after) ==
    IF after = 0 THEN ZeroDivision
    ELSE LET p == LongDiv(total_shares * 100, after, 4)
         IN  IF 2 * p[2] >= after THEN p[1] + 1 ELSE p[1]

\* A seeded slip: the division is not guarded.
ChangePct_Unguarded(total_shares, after) == PyPercent(total_shares, after)

\* (total_shares / after) * 100 if after != 0 else 0, then round(.., 4)
ChangePct(total_shares, after) ==
    IF after # 0 THEN PyPercent(total_shares, after) ELSE 0

\* A seeded slip: the price is taken from the first row of the record's own group.
SharePrice_OfGroup(d, txs) == PriceOf(txs[1])

\* insider_trade["nonDerivativeTable"]["transactions"][0]["amounts"].get("pricePerShare", 0)
SharePrice(d, txs) == PriceOf(d.transactions[1])

\* The loop over the coding groups.  total_shares and total_amount_spent are
\* initialised once, before the loop, and carried from one group to the next.
RECURSIVE ExtractLoop(_, _, _, _)
ExtractLoop(d, items, total_shares, total_amount_spent) ==
    IF items = <<>> THEN <<>>
    ELSE IF ~IsQualifying(Head(items).code)
         THEN ExtractLoop(d, Tail(items), total_shares, total_amount_spent)
         ELSE LET txs    == Head(items).txs
                  shares == total_shares + SumShares(txs)
                  spent  == total_amount_spent + SumSpent(txs)
                  after  == SharesAfter(d, txs)
              IN  <<[transaction_type |-> Head(items).code,
                     total_shares |-> shares,
                     share_price |-> SharePrice(d, txs),
                     total_amount_spent |-> spent,
                     total_shares_after_transaction |-> after,
                     change_in_shares_percentage |-> ChangePct(shares, after),
                     link |-> Absent,
                     one_week_return |-> None,
                     one_month_return |-> None,
                     six_months_return |-> None]>>
                  \o ExtractLoop(d, Tail(items), shares, spent)

\* A seeded slip: only the purchase group yields a record.
extract_purchases_only(d) ==
    SelectSeq(ExtractLoop(d, group_transaction_by_coding(d.transactions), 0, 0),
              LAMBDA r : r.transaction_type = "P")

\* extract_insider_trades_info_single
extract_insider_trades_info_single(d) ==
    ExtractLoop(d, group_transaction_by_coding(d.transactions), 0, 0)

\* What makes the extractor raise KeyError before any record is built: a document
\* without issuer (utils.py:149), without nonDerivativeTable (utils.py:157), or a
\* row that carries no coding (transaction['coding']['code'], utils.py:102).
extract_raises(d) ==
    \/ ~d.hasIssuer
    \/ ~d.hasTable
    \/ \E i \in 1..Len(d.transactions) : d.transactions[i].code = Absent

\* The outcome of one call of the extractor: an exception or the list returned.
ExtractOutcome(d) ==
    IF extract_raises(d) THEN [state |-> "raised", results |-> <<>>]
    ELSE LET res == extract_insider_trades_info_single(d)
         IN  IF \E i \in 1..Len(res) : res[i].change_in_shares_percentage = ZeroDivision
             THEN [state |-> "raised", results |-> <<>>]
             ELSE [state |-> "returned", results |-> res]

\* ------------------------------------------- the claims' reference values
\* The transactions of one code, in table order.
GroupOf(d, code) == SelectSeq(d.transactions, LAMBDA t : t.code = code)
CodesOf(d) == {d.transactions[i].code : i \in 1..Len(d.transactions)}
RecordsOf(results, code) == {i \in 1..Len(results) : results[i].transaction_type = code}

\* The pipeline record of on_filings before any event was handed to it.
\* ev and doc are optional: <<>> or a one-element sequence.
\* queries counts the calls of insiderTradingApi.get_data made for the event,
\* asked holds their parameters and resp what the last one returned; raisedIn is
\* the step whose exception on_filings caught.
IdleCur ==
    [ev |-> <<>>, outcome |-> "idle", raisedIn |-> "none", queries |-> 0,
     asked |-> <<>>, resp |-> <<>>, doc |-> <<>>, recs |-> <<>>, calls |-> <<>>]

\* ===================================================== SpecExtract
\* Transactions whose coding, shares and price vary (direct ownership), a direct
\* purchase that leaves another share count, and P/S transactions whose indirect
\* ownership nature and following-share count vary.
TxValues ==
    [code : Codes, shares : {1, 2}, price : {Missing, Some(3)},
     own : {"D"}, nature : {Absent}, after : {Some(4)}]
    \cup
    [code : {"P"}, shares : {1}, price : {Some(3)},
     own : {"D"}, nature : {Absent}, after : {Some(9)}]
    \cup
    [code : {"P", "S"}, shares : {1}, price : {Some(3)},
     own : {"I"}, nature : {"By Trust", "By Spouse"}, after : {Some(0), Some(7)}]
    \cup
    [code : {Absent}, shares : {1}, price : {Some(3)},
     own : {"D"}, nature : {Absent}, after : {Some(4)}]

HoldingValues == { <<>>, <<[after |-> Missing], [after |-> Some(5)]>> }

TxTables == UNION {[1..n -> TxValues] : n \in 0..MaxTx}

Documents ==
    [isOfficer : {"true"}, officerTitle : {"CEO"}, hasIssuer : {TRUE}, hasTable : {TRUE},
     transactions : TxTables, holdings : HoldingValues]

InitExtract ==
    /\ doc \in Documents
    /\ out = [state |-> "pending", results |-> <<>>]
    /\ mgr = "connecting" /\ retry_counter = 0 /\ ws = "none" /\ ping = "none"
    /\ pending = <<>> /\ cur = IdleCur
    /\ consecFailed = 0 /\ dropCause = "none" /\ dropped = FALSE

Extract ==
    /\ out.state = "pending"
    /\ out' = ExtractOutcome(doc)
    /\ UNCHANGED <<doc, streamVars>>

NextExtract == Extract

SpecExtract == InitExtract /\ [][NextExtract]_vars

\* ============================================================ stream.py
\* ------------------------------------------------ the inputs of the stream
\* A filing event of a stream message.  isDict = FALSE is a JSON value that is
\* no object (filing.get raises AttributeError).
EventValues ==
    [isDict : {TRUE}, formType : {"4", "4/A", "8-K"}, accessionNo : {"", "0001"},
     link : {"url"}]
    \cup
    [isDict : {FALSE}, formType : {Absent}, accessionNo : {""}, link : {""}]

Batches == UNION {[1..n -> EventValues] : n \in 0..MaxBatch}

TxP == [code |-> "P", shares |-> 2, price |-> Some(3), own |-> "D",
        nature |-> Absent, after |-> Some(4)]
TxS == [code |-> "S", shares |-> 1, price |-> Some(3), own |-> "D",
        nature |-> Absent, after |-> Some(4)]
TxA == [code |-> "A", shares |-> 1, price |-> Missing, own |-> "D",
        nature |-> Absent, after |-> Some(4)]
TxNoCoding == [code |-> Absent, shares |-> 1, price |-> Some(3), own |-> "D",
               nature |-> Absent, after |-> Some(4)]

\* The single direct purchase of the worked example of the specification.
TxTSLA == [code |-> "P", shares |-> 13037, price |-> Some(767), own |-> "D",
           nature |-> Absent, after |-> Some(34098597)]

DocTSLA == [isOfficer |-> "true", officerTitle |-> "CEO", hasIssuer |-> TRUE,
            hasTable |-> TRUE, transactions |-> <<TxTSLA>>, holdings |-> <<>>]

Titles == {"CEO", "Chief Executive Officer", "CFO"}

\* A title that contains "CEO" without being it, and one that contains an entry
\* of officer_titles without being it.
LongTitles == {"Co-CEO", "Chief Executive Officer and Chairman"}

\* officerTitle present with the JSON value null: .get('officerTitle', "") is None
NullTitle == "null"

\* The documents the Filing Detail Provider may return: every combination of
\* officer flag, title and transaction table, officer documents with the longer
\* titles, the document of the worked example, and three documents that lack a
\* part of the expected shape.
StreamDocs ==
    [isOfficer : {"true", "false", Absent}, officerTitle : Titles,
     hasIssuer : {TRUE}, hasTable : {TRUE},
     transactions : {<<>>, <<TxA>>, <<TxP>>, <<TxP, TxS>>, <<TxNoCoding>>},
     holdings : {<<>>}]
    \cup
    [isOfficer : {"true"}, officerTitle : LongTitles,
     hasIssuer : {TRUE}, hasTable : {TRUE},
     transactions : {<<TxA>>, <<TxS>>}, holdings : {<<>>}]
    \cup
    {DocTSLA,
     [isOfficer |-> "true", officerTitle |-> NullTitle, hasIssuer |-> TRUE,
      hasTable |-> TRUE, transactions |-> <<TxP>>, holdings |-> <<>>]}
    \cup
    [isOfficer : {"true", "false"}, officerTitle : {"CEO"},
     hasIssuer : {FALSE}, hasTable : {TRUE},
     transactions : {<<TxP>>}, holdings : {<<>>}]
    \cup
    [isOfficer : {"true"}, officerTitle : {"CEO"},
     hasIssuer : {TRUE}, hasTable : {FALSE},
     transactions : {<<>>}, holdings : {<<>>}]

\* A document of somebody who is no officer.
DocNoOfficer ==
    [isOfficer |-> "false", officerTitle |-> "CFO", hasIssuer |-> TRUE,
     hasTable |-> TRUE, transactions |-> <<TxS>>, holdings |-> <<>>]

\* What insiderTradingApi.get_data does: raises, reports total.value = 0, or
\* returns one document; two responses carry a second document.
Responses ==
    {[kind |-> "error", doc |-> <<>>], [kind |-> "empty", doc |-> <<>>]}
    \cup {[kind |-> "doc", doc |-> <<d>>] : d \in StreamDocs}
    \cup {[kind |-> "doc", doc |-> <<DocTSLA, DocNoOfficer>>],
          [kind |-> "doc", doc |-> <<DocNoOfficer, DocTSLA>>]}

\* A seeded slip: the last document of the response is taken.
LastDocument(r) == r.doc[Len(r.doc)]

\* data = insider_trades['transactions'][0]
FirstDocument(r) == r.doc[1]

\* The query of fetch_insider_trades: accessionNo:{accessionNo}, "size": 1
QueryFor(ev) == [accessionNo |-> ev.accessionNo, size |-> 1]

\* -------------------------------------------------------- fetch_insider_trades
\* A seeded slip: the accession number is not consulted.
IsCandidate_FormOnly(ev) == ev.formType \in {"4", "4/A"}

\* form_type in ["4", "4/A"] and accessionNo
IsCandidate(ev) == ev.formType \in {"4", "4/A"} /\ ev.accessionNo # ""

\* A seeded slip: the officer flag is not consulted.
IsOfficer_Ignored(d) == TRUE

\* data.get('reportingOwner', {}).get('relationship', {}).get('isOfficer', False)
IsOfficer(d) == d.isOfficer = "true"

\* officer_title.find("CEO") != -1, on the titles of the model
ContainsCEO(title) == title \in {"CEO", "Co-CEO"}

\* app.internals.constants.officer_titles (the module is not among the sources)
officer_titles == {"Chief Executive Officer"}

\* get_all_codings(data["nonDerivativeTable"]["transactions"]) raises KeyError,
\* or officer_title.find raises AttributeError on None
FilterRaises(d) ==
    \/ ~d.hasTable
    \/ d.officerTitle = NullTitle
    \/ \E i \in 1..Len(d.transactions) : d.transactions[i].code = Absent

\* A seeded slip: the codings are not consulted.
FilterAccepts_TitleOnly(d) ==
    ContainsCEO(d.officerTitle) \/ d.officerTitle \in officer_titles

\* (officer_title.find("CEO") != -1 or officer_title in officer_titles) and is_sale_or_purchase
FilterAccepts(d) ==
    /\ ContainsCEO(d.officerTitle) \/ d.officerTitle \in officer_titles
    /\ \E i \in 1..Len(d.transactions) : get_all_codings(d.transactions)[i] \in {"P", "S"}

\* A seeded slip: only the first record receives the link.
WithLink_FirstOnly(recs, link) ==
    [i \in 1..Len(recs) |-> IF i = 1 THEN [recs[i] EXCEPT !.link = link] ELSE recs[i]]

\* for d in formated_data: d['link'] = link
WithLink(recs, link) == [i \in 1..Len(recs) |-> [recs[i] EXCEPT !.link = link]]

\* ------------------------------------------------------- resend_helper.py
\* A seeded slip: the body has no try/except, the failure reaches the caller.
signal_notification_Unguarded(items, f) ==
    [result   |-> IF f = 0 THEN "ok" ELSE "raised",
     notified |-> IF f = 0 THEN 1..Len(items) ELSE 1..(f - 1)]

\* signal_notification: the records are handled in batch order inside one
\* try/except Exception.  When the handling of record f fails (f = 0: none
\* fails) the loop is left and False is returned; the emails of the records
\* before f have been sent.
signal_notification(items, f) ==
    [result   |-> IF f = 0 THEN "ok" ELSE "false",
     notified |-> IF f = 0 THEN 1..Len(items) ELSE 1..(f - 1)]

\* ------------------------------------------------------ supabase_helper.py
\* str.lower() on the transaction types of the model
Lower(transaction_type) ==
    IF transaction_type = "P" THEN "p"
    ELSE IF transaction_type = "S" THEN "s" ELSE transaction_type

\* get_database_table; the tables are named after the constants that hold them
get_database_table(transaction_type) ==
    IF Lower(transaction_type) = "p" THEN "PURCHASE_TABLE" ELSE "SALES_TABLE"

\* row = {...}: the fields every row carries
BaseRow(data) ==
    [transaction_type |-> data.transaction_type,
     total_shares |-> data.total_shares,
     share_price |-> data.share_price,
     total_amount_spent |-> data.total_amount_spent,
     total_shares_after_transaction |-> data.total_shares_after_transaction,
     change_in_shares_percentage |-> data.change_in_shares_percentage,
     link |-> data.link]

ReturnsOf(data) ==
    [one_week_return |-> data.one_week_return,
     one_month_return |-> data.one_month_return,
     six_months_return |-> data.six_months_return]

\* A seeded slip: the return fields are copied into every row.
RowOf_AlwaysReturns(data) == BaseRow(data) @@ ReturnsOf(data)

\* The row of one record: the return fields are added when the type lowers to
\* 'p'; for 's' the row never holds them, so the deletions find nothing.
RowOf(data) ==
    IF Lower(data.transaction_type) = "p" THEN BaseRow(data) @@ ReturnsOf(data)
    ELSE BaseRow(data)

\* A seeded slip: the rows are written in one transaction.
insert_all_or_nothing(items, n) ==
    IF n < Len(items) THEN <<>>
    ELSE [i \in 1..n |-> [table |-> get_database_table(items[i].transaction_type),
                          row   |-> RowOf(items[i])]]

\* insert_data_into_table, stopped after n inserts: supabase.table(TABLE).insert(row)
insert_data_into_table(items, n) ==
    [i \in 1..n |-> [table |-> get_database_table(items[i].transaction_type),
                     row   |-> RowOf(items[i])]]

\* ------------------------------------------------------------------ main
\* while retry_counter < max_retries
LoopContinues_OffByOne(rc) == rc <= max_retries
LoopContinues(rc) == rc < max_retries

\* Where main stands once on_filings has returned: the next event of the batch,
\* or websocket.recv() when the batch is exhausted.
AfterEvent(rest) == IF rest = <<>> THEN "recv" ELSE "dispatch"

Connected == mgr \in {"recv", "dispatch", "settle", "notify", "store"}
PingAlive == ping \in {"sleeping", "waiting", "closing"}

\* A seeded slip: the keepalive task is neither cancelled nor awaited.
ConnectionLost_NoCancel ==
    /\ retry_counter' = retry_counter + 1
    /\ dropped' = TRUE
    /\ ws' = "closed"
    /\ ping' = ping /\ mgr' = "backoff"

\* The except clause of main (lines 156-172) after an established connection
\* failed: the context manager has closed the websocket, retry_counter is
\* incremented, the keepalive task is cancelled and awaited.  A task that had
\* already returned is awaited without effect.  A task cancelled while it sleeps
\* or waits for the pong ends cancelled, and asyncio.CancelledError, which is no
\* Exception, leaves main through "except Exception".  A task cancelled inside
\* websocket.close() ends either way, depending on where close() stands.
ConnectionLost ==
    /\ retry_counter' = retry_counter + 1
    /\ dropped' = TRUE
    /\ ws' = "closed"
    /\ \/ /\ ping = "done"
          /\ ping' = "none" /\ mgr' = "backoff"
       \/ /\ ping = "closing"
          /\ ping' = "none" /\ mgr' = "backoff"
       \/ /\ PingAlive
          /\ ping' = "cancelled" /\ mgr' = "crashed"

\* A seeded slip: retry_counter is not reset.
ConnectOk_NoReset ==
    /\ mgr = "connecting"
    /\ mgr' = "recv"
    /\ ws' = "open"
    /\ ping' = "sleeping"
    /\ consecFailed' = 0
    /\ dropCause' = "none"
    /\ UNCHANGED <<retry_counter, pending, cur, dropped, doc, out>>

\* async with websockets.connect(...) succeeded: lines 144-148
ConnectOk ==
    /\ mgr = "connecting"
    /\ mgr' = "recv"
    /\ retry_counter' = 0
    /\ ws' = "open"
    /\ ping' = "sleeping"
    /\ consecFailed' = 0
    /\ dropCause' = "none"
    /\ UNCHANGED <<pending, cur, dropped, doc, out>>

\* websockets.connect raised: lines 156-172 with ping_task None
ConnectFail ==
    /\ mgr = "connecting"
    /\ retry_counter' = retry_counter + 1
    /\ consecFailed' = consecFailed + 1
    /\ mgr' = "backoff"
    /\ UNCHANGED <<ws, ping, pending, cur, dropCause, dropped, doc, out>>

\* asyncio.sleep(5) is over: the loop test of line 142
BackoffDone ==
    /\ mgr = "backoff"
    /\ mgr' = IF LoopContinues(retry_counter) THEN "connecting" ELSE "stopped"
    /\ UNCHANGED <<retry_counter, ws, ping, pending, cur, consecFailed, dropCause, dropped, doc, out>>

\* websocket.recv() returned a message that json.loads decoded to a batch
RecvMessage ==
    /\ mgr = "recv" /\ ws = "open"
    /\ \E b \in Batches :
          /\ pending' = b
          /\ mgr' = AfterEvent(b)
    /\ UNCHANGED <<retry_counter, ws, ping, cur, consecFailed, dropCause, dropped, doc, out>>

\* websocket.recv() raised ConnectionClosed
RecvFail ==
    /\ mgr = "recv" /\ ws = "closed"
    /\ ConnectionLost
    /\ UNCHANGED <<pending, cur, consecFailed, dropCause, doc, out>>

\* json.loads(message) raised, or the decoded value cannot be iterated
RecvUndecodable ==
    /\ mgr = "recv" /\ ws = "open"
    /\ ConnectionLost
    /\ dropCause' = "decode"
    /\ UNCHANGED <<pending, cur, consecFailed, doc, out>>

\* The Filing Stream Source or the network drops the connection.
ServerDrop ==
    /\ Connected /\ ws = "open"
    /\ ws' = "closed"
    /\ dropCause' = "server"
    /\ UNCHANGED <<mgr, retry_counter, ping, pending, cur, consecFailed, dropped, doc, out>>

\* ------------------------------------------------------------- on_filings
\* A seeded slip: on_filings has no try/except, so the exception of one event
\* reaches the except clause of main.
EventRaised_Propagates(rest) ==
    /\ ConnectionLost
    /\ UNCHANGED <<consecFailed, dropCause>>

\* The except clause of on_filings (lines 120-121): the exception is printed and
\* on_filings returns to the for loop of main.
EventRaised(rest) ==
    /\ mgr' = AfterEvent(rest)
    /\ UNCHANGED <<retry_counter, ws, ping, consecFailed, dropCause, dropped>>

\* on_filings up to the call of fetch_insider_trades: lines 102-118
Dispatch ==
    /\ mgr = "dispatch" /\ pending # <<>>
    /\ pending' = Tail(pending)
    /\ LET ev == Head(pending)
       IN  IF ~ev.isDict
           THEN /\ cur' = [IdleCur EXCEPT !.ev = <<ev>>, !.outcome = "raised",
                                         !.raisedIn = "event"]
                /\ EventRaised(Tail(pending))
           ELSE IF ~IsCandidate(ev)
           THEN /\ cur' = [IdleCur EXCEPT !.ev = <<ev>>, !.outcome = "not_candidate"]
                /\ mgr' = AfterEvent(Tail(pending))
                /\ UNCHANGED <<retry_counter, ws, ping, consecFailed, dropCause, dropped>>
           ELSE /\ cur' = [IdleCur EXCEPT !.ev = <<ev>>, !.outcome = "in_flight"]
                /\ mgr' = "settle"
                /\ UNCHANGED <<retry_counter, ws, ping, consecFailed, dropCause, dropped>>
    /\ UNCHANGED <<doc, out>>

\* A seeded slip: a failed detail query is issued again after another delay.
OnQueryError_Retry(q) ==
    /\ cur' = q
    /\ mgr' = "settle"
    /\ UNCHANGED <<retry_counter, ws, ping, consecFailed, dropCause, dropped>>

\* insiderTradingApi.get_data raised: the exception leaves fetch_insider_trades
\* and is caught by on_filings (lines 120-121).
OnQueryError(q) ==
    /\ cur' = [q EXCEPT !.outcome = "raised", !.raisedIn = "query"]
    /\ EventRaised(pending)

\* fetch_insider_trades after asyncio.sleep(15): the detail query, the
\* officer/trade filter and the extraction, lines 20-56
FetchDetail ==
    /\ mgr = "settle"
    /\ \E r \in Responses :
          LET q == [cur EXCEPT !.queries = @ + 1,
                               !.asked = Append(@, QueryFor(cur.ev[1])),
                               !.resp = <<r>>]
              d == <<FirstDocument(r)>>
          IN  IF r.kind = "error"
              THEN OnQueryError(q)
              ELSE IF r.kind = "empty"
              THEN /\ cur' = [q EXCEPT !.outcome = "no_data"]
                   /\ mgr' = AfterEvent(pending)
                   /\ UNCHANGED <<retry_counter, ws, ping, consecFailed, dropCause, dropped>>
              ELSE IF ~IsOfficer(d[1])
              THEN /\ cur' = [q EXCEPT !.outcome = "not_officer", !.doc = d]
                   /\ mgr' = AfterEvent(pending)
                   /\ UNCHANGED <<retry_counter, ws, ping, consecFailed, dropCause, dropped>>
              ELSE IF FilterRaises(d[1])
              THEN /\ cur' = [q EXCEPT !.outcome = "raised", !.raisedIn = "filter",
                                       !.doc = d]
                   /\ EventRaised(pending)
              ELSE IF ~FilterAccepts(d[1])
              THEN /\ cur' = [q EXCEPT !.outcome = "skipped", !.doc = d]
                   /\ mgr' = AfterEvent(pending)
                   /\ UNCHANGED <<retry_counter, ws, ping, consecFailed, dropCause, dropped>>
              ELSE IF ExtractOutcome(d[1]).state = "raised"
              THEN /\ cur' = [q EXCEPT !.outcome = "raised", !.raisedIn = "extract",
                                       !.doc = d]
                   /\ EventRaised(pending)
              ELSE /\ cur' = [q EXCEPT !.doc = d,
                                       !.recs = WithLink(extract_insider_trades_info_single(d[1]),
                                                         cur.ev[1].link)]
                   /\ mgr' = "notify"
                   /\ UNCHANGED <<retry_counter, ws, ping, consecFailed, dropCause, dropped>>
    /\ UNCHANGED <<pending, doc, out>>

\* try: signal_notification(formated_data) except Exception: lines 58-66.  The
\* handling of record f fails (f = 0: of none); an exception of the call would be
\* caught here, and the store call follows in every case.  Each call is recorded
\* with the index of the record that failed (0: none).
Notify ==
    /\ mgr = "notify"
    /\ \E f \in 0..Len(cur.recs) :
          LET r == signal_notification(cur.recs, f)
          IN  cur' = [cur EXCEPT
                        !.calls = Append(@, [kind |-> "notify", batch |-> cur.recs,
                                             result |-> r.result, failed |-> f,
                                             rows |-> <<>>,
                                             notified |-> r.notified])]
    /\ mgr' = "store"
    /\ UNCHANGED <<retry_counter, ws, ping, pending, consecFailed, dropCause, dropped, doc, out>>

\* A seeded slip: insert_data_into_table is called outside any try, so that its
\* exception leaves fetch_insider_trades and ends the event in on_filings.
Store_Unguarded ==
    /\ mgr = "store"
    /\ \E n \in 0..Len(cur.recs) :
          cur' = [cur EXCEPT
                    !.calls = Append(@, [kind |-> "store", batch |-> cur.recs,
                                         result |-> IF n = Len(cur.recs)
                                                    THEN "ok" ELSE "raised",
                                         failed |-> IF n = Len(cur.recs)
                                                    THEN 0 ELSE n + 1,
                                         rows |-> insert_data_into_table(cur.recs, n),
                                         notified |-> {}]),
                    !.outcome = IF n = Len(cur.recs) THEN "done" ELSE "raised",
                    !.raisedIn = IF n = Len(cur.recs) THEN @ ELSE "store"]
    /\ mgr' = AfterEvent(pending)
    /\ UNCHANGED <<retry_counter, ws, ping, pending, consecFailed, dropCause, dropped, doc, out>>

\* try: insert_data_into_table(formated_data) except Exception: lines 68-76.
\* The call inserts the rows of the first n records; it returns when n is the
\* length of the batch and raises out of the insert of row n + 1 otherwise.
Store ==
    /\ mgr = "store"
    /\ \E n \in 0..Len(cur.recs) :
          cur' = [cur EXCEPT
                    !.calls = Append(@, [kind |-> "store", batch |-> cur.recs,
                                         result |-> IF n = Len(cur.recs)
                                                    THEN "ok" ELSE "raised",
                                         failed |-> IF n = Len(cur.recs)
                                                    THEN 0 ELSE n + 1,
                                         rows |-> insert_data_into_table(cur.recs, n),
                                         notified |-> {}]),
                    !.outcome = "done"]
    /\ mgr' = AfterEvent(pending)
    /\ UNCHANGED <<retry_counter, ws, ping, pending, consecFailed, dropCause, dropped, doc, out>>

\* --------------------------------------------------------------- send_ping
\* websocket.ping() was sent: line 127
PingSend ==
    /\ ping = "sleeping" /\ ws = "open"
    /\ ping' = "waiting"
    /\ UNCHANGED <<mgr, retry_counter, ws, pending, cur, consecFailed, dropCause, dropped, doc, out>>

\* the pong arrived within 5 seconds; the task sleeps 30 seconds: lines 129-130
PingPong ==
    /\ ping = "waiting" /\ ws = "open"
    /\ ping' = "sleeping"
    /\ UNCHANGED <<mgr, retry_counter, ws, pending, cur, consecFailed, dropCause, dropped, doc, out>>

\* no pong within 5 seconds: the except clause starts websocket.close(), lines 131-133
PingTimeout ==
    /\ ping = "waiting" /\ ws = "open"
    /\ ping' = "closing"
    /\ ws' = "closed"
    /\ dropCause' = "keepalive"
    /\ UNCHANGED <<mgr, retry_counter, pending, cur, consecFailed, dropped, doc, out>>

\* ping() or the pong waiter raised because the connection is already closed
PingError ==
    /\ ping \in {"sleeping", "waiting"} /\ ws = "closed"
    /\ ping' = "closing"
    /\ UNCHANGED <<mgr, retry_counter, ws, pending, cur, consecFailed, dropCause, dropped, doc, out>>

\* websocket.close() returned and send_ping returns: lines 133-134
PingReturn ==
    /\ ping = "closing"
    /\ ping' = "done"
    /\ UNCHANGED <<mgr, retry_counter, ws, pending, cur, consecFailed, dropCause, dropped, doc, out>>

\* ------------------------------------------------------------------- Spec
Init ==
    /\ doc = [isOfficer |-> "true", officerTitle |-> "CEO", hasIssuer |-> TRUE,
              hasTable |-> TRUE, transactions |-> <<>>, holdings |-> <<>>]
    /\ out = [state |-> "pending", results |-> <<>>]
    /\ mgr = "connecting" /\ retry_counter = 0 /\ ws = "none" /\ ping = "none"
    /\ pending = <<>> /\ cur = IdleCur
    /\ consecFailed = 0 /\ dropCause = "none" /\ dropped = FALSE

Next ==
    \/ ConnectOk \/ ConnectFail \/ BackoffDone
    \/ RecvMessage \/ RecvFail \/ RecvUndecodable \/ ServerDrop
    \/ Dispatch \/ FetchDetail \/ Notify \/ Store
    \/ PingSend \/ PingPong \/ PingTimeout \/ PingError \/ PingReturn

Spec == Init /\ [][Next]_vars

\* ------------------------------------------------------ claims C1 - C4
\* A document of the data model: every transaction carries a coding code.
WellFormed(d) == \A i \in 1..Len(d.transactions) : d.transactions[i].code \in Codes
Returned == out.state = "returned"

\* C1: every record's total_shares is the sum of amounts.shares over the
\* transactions of its own coding group only.
C1_TotalSharesPerGroup ==
    Returned =>
        \A i \in 1..Len(out.results) :
            out.results[i].total_shares
                = SumShares(GroupOf(doc, out.results[i].transaction_type))

\* C2: every record's total_amount_spent is the sum of shares * pricePerShare
\* (a missing price counted as 0) over the transactions of its own group only.
C2_TotalSpentPerGroup ==
    Returned =>
        \A i \in 1..Len(out.results) :
            out.results[i].total_amount_spent
                = SumSpent(GroupOf(doc, out.results[i].transaction_type))

\* C3: a document whose transaction table holds no "P" and no "S" transaction
\* (the empty table included) makes the extractor return the empty list, and
\* the call does not raise.
C3_NoQualifyingCodeYieldsEmpty ==
    (out.state # "pending" /\ WellFormed(doc) /\ CodesOf(doc) \cap {"P", "S"} = {})
        => (out.state = "returned" /\ out.results = <<>>)

C3_Witness ==
    /\ WellFormed(doc)
    /\ Len(doc.transactions) >= 2 /\ CodesOf(doc) = {"A"}
    /\ out.state = "returned" /\ out.results = <<>>

\* C4: exactly one record per distinct code of {"P","S"} present in the table,
\* typed with that code, none for any other code, and never more than two.
C4_OneRecordPerQualifyingCode ==
    Returned =>
        /\ \A i \in 1..Len(out.results) : out.results[i].transaction_type \in {"P", "S"}
        /\ \A c \in {"P", "S"} :
              Cardinality(RecordsOf(out.results, c)) = (IF c \in CodesOf(doc) THEN 1 ELSE 0)
        /\ Len(out.results) <= 2

\* A table that interleaves the two codes (P, S, P) still gives two records.
C4_Witness ==
    /\ Returned
    /\ Len(doc.transactions) = 3
    /\ doc.transactions[1].code = "P" /\ doc.transactions[2].code = "S"
    /\ doc.transactions[3].code = "P"
    /\ Len(out.results) = 2
    /\ out.results[1].transaction_type = "P" /\ out.results[2].transaction_type = "S"

\* ------------------------------------------------------ claims C5 - C10
\* C5: once 10 connect attempts in a row have failed, the manager makes no
\* further connect attempt: it is in its last backoff or Stopped, its only step
\* from that backoff is to Stopped, and nothing happens after Stopped.
C5_StopsAfterMaxFailures ==
    /\ [](consecFailed >= max_retries => mgr \in {"backoff", "stopped"})
    /\ [][(mgr = "backoff" /\ consecFailed >= max_retries) => mgr' = "stopped"]_vars
    /\ [][mgr = "stopped" => UNCHANGED vars]_vars

C5_Witness ==
    mgr = "stopped" /\ consecFailed = max_retries /\ retry_counter = max_retries

\* C6: while the connection is open and the pipeline of an event is in flight
\* (its settle delay included), the receive loop can take the next message.
C6_ReceiveNotBlocked ==
    (ws = "open" /\ cur.outcome = "in_flight") => ENABLED RecvMessage

\* C7: after a keepalive timeout closed the connection the manager goes on to a
\* new connect attempt; it never ends instead.
C7_KeepaliveTimeoutReconnects ==
    dropCause = "keepalive" => mgr # "crashed"

\* C8: whatever the notification call does (it returns False on a failure), the
\* store call follows with the full batch of the document, and no failure of
\* either call leaves fetch_insider_trades as an exception.
C8_FanoutCallsIsolated ==
    /\ cur.outcome = "done" =>
          /\ Len(cur.calls) = 2
          /\ cur.calls[1].kind = "notify" /\ cur.calls[2].kind = "store"
          /\ cur.calls[2].batch
                = WithLink(extract_insider_trades_info_single(cur.doc[1]), cur.ev[1].link)
          /\ cur.calls[2].batch # <<>>
    /\ cur.calls # <<>> => cur.outcome \in {"in_flight", "done"}
    /\ (cur.calls # <<>> /\ cur.outcome = "in_flight") =>
          (Len(cur.calls) = 1 /\ cur.calls[1].kind = "notify" /\ mgr = "store")

C8_Witness ==
    /\ cur.outcome = "done"
    /\ cur.calls[1].result = "false" /\ cur.calls[2].result = "raised"
    /\ Len(cur.calls[2].batch) = 2

\* A step in which the processing of the current event fails: on_filings caught
\* an exception, or a fan-out call failed.
EventFailure ==
    /\ cur' # cur
    /\ \/ cur'.outcome = "raised"
       \/ /\ Len(cur'.calls) > Len(cur.calls)
          /\ cur'.calls[Len(cur'.calls)].result # "ok"

\* C9: a failure while one event is processed leaves the connection, the
\* keepalive task and the retry counter as they were, and the manager goes on
\* with the same pipeline or the next event of the batch (the next recv when the
\* batch is exhausted).
C9_EventFailureIsolated ==
    [][EventFailure =>
          /\ retry_counter' = retry_counter
          /\ ws' = ws /\ ping' = ping
          /\ consecFailed' = consecFailed
          /\ mgr' \in {"store", AfterEvent(pending')}
          /\ (cur'.outcome = "raised" => mgr' = AfterEvent(pending'))]_vars

\* An event failed (here the detail query or the filter raised) and the next
\* event of the batch is about to be handed to on_filings on the same connection.
C9_Witness ==
    /\ cur.outcome = "raised" /\ cur.ev[1].isDict
    /\ mgr = "dispatch" /\ pending # <<>>
    /\ ws = "open" /\ retry_counter = 0

\* C10: a fetched document whose isOfficer is false or absent gives no trade
\* record and no fan-out call.
C10_NonOfficerNoFanout ==
    (cur.doc # <<>> /\ cur.doc[1].isOfficer # "true") =>
        (cur.outcome = "not_officer" /\ cur.recs = <<>> /\ cur.calls = <<>>)

C10_Witness ==
    /\ cur.doc # <<>>
    /\ cur.doc[1].isOfficer = Absent
    /\ cur.doc[1].officerTitle = "CEO" /\ cur.doc[1].transactions = <<TxP, TxS>>
    /\ cur.outcome = "not_officer" /\ cur.calls = <<>>

\* ------------------------------------------------------ claims C11 - C20
\* C11: a record whose total_shares_after_transaction is 0 carries
\* change_in_shares_percentage 0, whatever its total_shares, and the extractor
\* does not raise on a document of the data model.
C11_ZeroAfterGivesZeroPct ==
    (out.state # "pending" /\ WellFormed(doc)) =>
        /\ out.state = "returned"
        /\ \A i \in 1..Len(out.results) :
              out.results[i].total_shares_after_transaction = 0
                  => out.results[i].change_in_shares_percentage = 0

C11_Witness ==
    /\ Returned
    /\ \E i \in 1..Len(out.results) :
          /\ out.results[i].total_shares_after_transaction = 0
          /\ out.results[i].total_shares > 1
          /\ out.results[i].change_in_shares_percentage = 0

\* C12: the worked example.  An event of formType "4" whose document is the
\* CEO's single direct purchase of 13037 shares at 767 leaving 34098597 yields
\* one record with total_shares 13037, total_amount_spent 9999379,
\* total_shares_after_transaction 34098597 and change_in_shares_percentage
\* 0.0382 (382 units of 0.0001), handed to one notification call and one store
\* call.
C12_WorkedExample ==
    (cur.doc = <<DocTSLA>> /\ cur.ev[1].formType = "4") =>
        /\ cur.outcome \in {"in_flight", "done"}
        /\ Len(cur.recs) = 1
        /\ cur.recs[1].transaction_type = "P"
        /\ cur.recs[1].total_shares = 13037
        /\ cur.recs[1].total_amount_spent = 9999379
        /\ cur.recs[1].total_shares_after_transaction = 34098597
        /\ cur.recs[1].change_in_shares_percentage = 382
        /\ cur.outcome = "done" =>
              /\ Len(cur.calls) = 2
              /\ cur.calls[1].kind = "notify" /\ cur.calls[1].batch = cur.recs
              /\ cur.calls[2].kind = "store" /\ cur.calls[2].batch = cur.recs

C12_Witness ==
    /\ cur.doc = <<DocTSLA>> /\ cur.ev[1].formType = "4"
    /\ cur.outcome = "done"
    /\ cur.recs[1].total_amount_spent = 9999379

\* Positions i < j of the table hold transactions of one qualifying group and one
\* indirect ownership nature, and a later transaction of that group and nature
\* follows j: exchanging them keeps the same transaction last.
SameNaturePair(txs, i, j) ==
    /\ i < j
    /\ txs[i].code \in {"P", "S"} /\ txs[i].own = "I"
    /\ txs[j].code = txs[i].code /\ txs[j].own = "I" /\ txs[j].nature = txs[i].nature
    /\ \E k \in (j + 1)..Len(txs) :
          /\ txs[k].code = txs[i].code /\ txs[k].own = "I"
          /\ txs[k].nature = txs[i].nature

Swap(txs, i, j) ==
    [k \in 1..Len(txs) |-> IF k = i THEN txs[j] ELSE IF k = j THEN txs[i] ELSE txs[k]]

AfterOfRecords(results) ==
    [i \in 1..Len(results) |-> results[i].total_shares_after_transaction]

\* C13: exchanging two same-nature indirect transactions of a group, neither of
\* them the last of that nature, leaves every record's
\* total_shares_after_transaction unchanged.
C13_AfterInvariantUnderReorder ==
    (Returned /\ WellFormed(doc)) =>
        \A i, j \in 1..Len(doc.transactions) :
            SameNaturePair(doc.transactions, i, j) =>
                AfterOfRecords(extract_insider_trades_info_single(
                    [doc EXCEPT !.transactions = Swap(doc.transactions, i, j)]))
                = AfterOfRecords(out.results)

C13_Witness ==
    /\ Returned
    /\ Len(doc.transactions) = 3
    /\ SameNaturePair(doc.transactions, 1, 2)
    /\ doc.transactions[1].after # doc.transactions[2].after
    /\ doc.transactions[2].after # doc.transactions[3].after
    /\ doc.holdings = <<>>
    /\ out.results[1].total_shares_after_transaction = doc.transactions[3].after[1]

\* C14: a detail query is issued for an event exactly when its formType is "4"
\* or "4/A" and its accessionNo is not empty (one query, once the settle delay
\* is over); for any other event there is no query, no notification call and no
\* store call.
C14_CandidateIffForm4WithAccession ==
    cur.ev # <<>> =>
        IF cur.ev[1].formType \in {"4", "4/A"} /\ cur.ev[1].accessionNo # ""
        THEN cur.queries = 1 \/ (cur.queries = 0 /\ mgr = "settle")
        ELSE cur.queries = 0 /\ cur.calls = <<>> /\ cur.doc = <<>>

C14_Witness ==
    /\ cur.ev # <<>> /\ cur.ev[1].formType = "4/A" /\ cur.ev[1].accessionNo # ""
    /\ cur.queries = 1

ReturnNames == {"one_week_return", "one_month_return", "six_months_return"}

\* C15: every row the store call inserts for an "S" record has none of the
\* three return fields and goes to the sales table; every row for a "P" record
\* has all three and goes to the purchase table.
C15_RowShapeAndTable ==
    \A c \in 1..Len(cur.calls) :
        \A i \in 1..Len(cur.calls[c].rows) :
            LET rec == cur.calls[c].batch[i]
                w   == cur.calls[c].rows[i]
            IN  /\ rec.transaction_type = "S" =>
                      /\ DOMAIN w.row \cap ReturnNames = {}
                      /\ w.table = "SALES_TABLE"
                /\ rec.transaction_type = "P" =>
                      /\ ReturnNames \subseteq DOMAIN w.row
                      /\ w.table = "PURCHASE_TABLE"

C15_Witness ==
    /\ Len(cur.calls) = 2
    /\ Len(cur.calls[2].rows) = 2
    /\ cur.calls[2].rows[1].table = "PURCHASE_TABLE"
    /\ cur.calls[2].rows[2].table = "SALES_TABLE"
    /\ cur.calls[2].rows[1].row.transaction_type = "P"
    /\ cur.calls[2].rows[2].row.transaction_type = "S"

\* C16: when the receive side of an established connection fails (recv raises or
\* the message cannot be decoded) while the keepalive task is still sleeping or
\* waiting for its pong, main cancels the task and goes on to the back-off and
\* the next connect attempt; it does not end.
C16_ReceiveFailureReconnects ==
    [][(/\ mgr = "recv" /\ ping \in {"sleeping", "waiting"}
        /\ retry_counter' = retry_counter + 1)
       => (ping' \in {"cancelled", "none"} /\ mgr' = "backoff")]_vars

\* A document of the data model: issuer, transaction table, every coding, and a
\* title that is a string.
WellFormedDoc(d) ==
    d.hasIssuer /\ d.hasTable /\ WellFormed(d) /\ d.officerTitle # NullTitle

\* The batch of a document: every record extracted from it, each carrying the
\* link of the event.
FullBatch(d, ev) ==
    LET res == extract_insider_trades_info_single(d)
    IN  [i \in 1..Len(res) |->
            [transaction_type |-> res[i].transaction_type,
             total_shares |-> res[i].total_shares,
             share_price |-> res[i].share_price,
             total_amount_spent |-> res[i].total_amount_spent,
             total_shares_after_transaction |-> res[i].total_shares_after_transaction,
             change_in_shares_percentage |-> res[i].change_in_shares_percentage,
             link |-> ev.link,
             one_week_return |-> res[i].one_week_return,
             one_month_return |-> res[i].one_month_return,
             six_months_return |-> res[i].six_months_return]]

Accepted ==
    /\ cur.doc # <<>>
    /\ WellFormedDoc(cur.doc[1])
    /\ IsOfficer(cur.doc[1])
    /\ FilterAccepts(cur.doc[1])

\* C17: for an accepted document the calls are the notification call and then
\* the store call, once each, both with the batch of all records extracted from
\* that document, every record carrying the link of the event; no other call is
\* made for the event.
C17_OneNotifyThenOneStoreFullBatch ==
    /\ Len(cur.calls) <= 2
    /\ \A c \in 1..Len(cur.calls) :
          /\ cur.calls[c].kind = IF c = 1 THEN "notify" ELSE "store"
          /\ cur.doc # <<>>
          /\ cur.calls[c].batch = FullBatch(cur.doc[1], cur.ev[1])
    /\ Accepted =>
          /\ mgr = "notify" => Len(cur.calls) = 0
          /\ mgr = "store" => Len(cur.calls) = 1
          /\ mgr \notin {"notify", "store"} => Len(cur.calls) = 2 /\ cur.outcome = "done"

C17_Witness ==
    /\ Accepted /\ cur.outcome = "done"
    /\ Len(cur.recs) = 2
    /\ cur.calls[1].batch = cur.calls[2].batch
    /\ cur.calls[2].batch[2].link = "url"

Max(S) == CHOOSE x \in S : \A y \in S : y <= x

\* The group's last transaction of direct ownership, 0 without one.
RefDirect(txs) ==
    LET idx == {i \in 1..Len(txs) : txs[i].own = "D"}
    IN  IF idx = {} THEN 0 ELSE GetOr(txs[Max(idx)].after, 0)

\* For each ownership nature among the indirect transactions, the last one.
RECURSIVE RefIndirect(_, _)
RefIndirect(txs, natures) ==
    IF natures = {} THEN 0
    ELSE LET n    == CHOOSE x \in natures : TRUE
             last == Max({i \in 1..Len(txs) : txs[i].own = "I" /\ txs[i].nature = n})
         IN  GetOr(txs[last].after, 0) + RefIndirect(txs, natures \ {n})

RECURSIVE RefHoldings(_, _)
RefHoldings(holdings, i) ==
    IF i > Len(holdings) THEN 0
    ELSE (IF holdings[i].after = Missing THEN 0 ELSE holdings[i].after[1])
         + RefHoldings(holdings, i + 1)

\* C18: a record's total_shares_after_transaction is the following-share count
\* of the last direct transaction of its group (0 without one), plus that of the
\* last transaction of each indirect ownership nature of the group, plus that
\* of every holding that carries one.
C18_SharesAfterComposition ==
    (Returned /\ WellFormed(doc)) =>
        \A r \in 1..Len(out.results) :
            LET txs == GroupOf(doc, out.results[r].transaction_type)
            IN  out.results[r].total_shares_after_transaction
                = RefDirect(txs)
                  + RefIndirect(txs, {txs[i].nature : i \in {k \in 1..Len(txs) : txs[k].own = "I"}})
                  + RefHoldings(doc.holdings, 1)

C18_Witness ==
    /\ Returned
    /\ Len(doc.transactions) = 3
    /\ doc.transactions[1].after = Some(9) /\ doc.transactions[2].after = Some(4)
    /\ doc.transactions[2].code = "P"
    /\ doc.transactions[3].own = "I" /\ doc.transactions[3].code = "P"
    /\ doc.holdings # <<>>
    /\ out.results[1].total_shares_after_transaction = 4 + 7 + 5

\* C19: every record of a document carries the pricePerShare of the first
\* transaction of the whole table (0 when that transaction has none), whatever
\* the record's group; the P record and the S record carry the same share_price.
C19_SharePriceOfFirstTransaction ==
    (Returned /\ WellFormed(doc)) =>
        \A r \in 1..Len(out.results) :
            out.results[r].share_price
            = IF doc.transactions[1].price = Missing THEN 0
              ELSE doc.transactions[1].price[1]

C19_Witness ==
    /\ Returned
    /\ Len(out.results) = 2
    /\ doc.transactions[1].code = "S" /\ doc.transactions[1].price = Missing
    /\ \E i \in 1..Len(doc.transactions) :
          doc.transactions[i].code = "P" /\ doc.transactions[i].price = Some(3)
    /\ out.results[1].share_price = 0 /\ out.results[2].share_price = 0

\* C20: a document of an officer is accepted exactly when its title contains
\* "CEO" or is an entry of officer_titles and one of its transactions is coded
\* "P" or "S"; any other officer document is skipped: nothing is extracted and
\* no notification or store call is made.
C20_OfficerAcceptedIffTitleAndTrade ==
    (cur.doc # <<>> /\ WellFormedDoc(cur.doc[1]) /\ cur.doc[1].isOfficer = "true") =>
        LET d == cur.doc[1]
        IN  IF /\ ContainsCEO(d.officerTitle) \/ d.officerTitle \in officer_titles
               /\ \E i \in 1..Len(d.transactions) : d.transactions[i].code \in {"P", "S"}
            THEN /\ cur.outcome \in {"in_flight", "done"}
                 /\ cur.recs = FullBatch(d, cur.ev[1]) /\ cur.recs # <<>>
                 /\ cur.outcome = "done" => Len(cur.calls) = 2
            ELSE /\ cur.outcome = "skipped"
                 /\ cur.recs = <<>> /\ cur.calls = <<>>

C20_Witness ==
    /\ cur.doc # <<>> /\ cur.doc[1].isOfficer = "true"
    /\ cur.doc[1].officerTitle = "Co-CEO" /\ cur.doc[1].transactions = <<TxS>>
    /\ cur.outcome = "done" /\ Len(cur.calls) = 2

\* ------------------------------------------------------ claims C21 - C30
\* C21: whatever document was fetched, the officer/trade filter ends in accept
\* or reject; no exception leaves it.
C21_FilterNeverRaises ==
    cur.raisedIn # "filter"

\* C22: a candidate event waits through the settle delay without a query, then
\* exactly one query is issued, for the accession number of the event and with
\* page size 1; a response without match ends the event with no document, no
\* record and no call, and of a response with documents the first one is used.
C22_OneQueryAfterSettle ==
    /\ cur.queries <= 1
    /\ mgr = "settle" => (cur.queries = 0 /\ cur.outcome = "in_flight")
    /\ cur.queries = 1 =>
          cur.asked = <<[accessionNo |-> cur.ev[1].accessionNo, size |-> 1]>>
    /\ (cur.resp # <<>> /\ cur.resp[1].kind = "empty") =>
          /\ cur.outcome = "no_data"
          /\ cur.doc = <<>> /\ cur.recs = <<>> /\ cur.calls = <<>>
    /\ (cur.resp # <<>> /\ cur.resp[1].kind = "doc") =>
          cur.doc = <<cur.resp[1].doc[1]>>

C22_Witness ==
    /\ cur.queries = 1
    /\ cur.resp # <<>> /\ cur.resp[1].kind = "doc" /\ Len(cur.resp[1].doc) = 2
    /\ cur.doc = <<DocTSLA>> /\ cur.outcome = "done"

QueryFailed == cur.resp # <<>> /\ cur.resp[1].kind = "error"

\* C23: when the detail query of an event raises, the event is over: there has
\* been one query, no document, no record and no call; the step leaves the
\* connection, the keepalive task and the retry counter alone and the manager
\* goes on with the next event of the batch (the next recv when there is none).
C23_QueryFailureAbandonsEvent ==
    /\ [](QueryFailed =>
            /\ cur.outcome = "raised" /\ cur.queries = 1
            /\ cur.doc = <<>> /\ cur.recs = <<>> /\ cur.calls = <<>>
            /\ mgr # "settle")
    /\ [][(~QueryFailed /\ QueryFailed') =>
            /\ ws' = ws /\ ping' = ping /\ retry_counter' = retry_counter
            /\ pending' = pending
            /\ mgr' = IF pending = <<>> THEN "recv" ELSE "dispatch"]_vars

C23_Witness ==
    /\ QueryFailed
    /\ mgr = "dispatch" /\ pending # <<>>
    /\ cur.ev[1].accessionNo = "0001" /\ cur.queries = 1
    /\ ws = "open" /\ ping = "waiting"

\* C24: while a connection is established the retry counter is 0, each
\* successful connect having reset it; drops of established connections alone
\* never lead to Stopped: at least nine connect attempts in a row have failed
\* when the manager stops.
C24_ConnectResetsRetryCounter ==
    /\ Connected => retry_counter = 0
    /\ mgr = "stopped" => consecFailed + 1 >= max_retries

C24_Witness ==
    /\ dropped /\ mgr = "recv" /\ ws = "open" /\ ping = "sleeping"
    /\ retry_counter = 0 /\ consecFailed = 0

\* C25: a step of the keepalive task leaves the state of the websocket as it
\* was.
C25_KeepaliveLeavesHandle ==
    [][(ping' # ping /\ mgr' = mgr) => ws' = ws]_vars

\* C26: the manager is Stopped only after 10 connect attempts in a row have
\* failed.
C26_StoppedOnlyAfterTenFailedConnects ==
    mgr = "stopped" => consecFailed = max_retries

\* C27: a keepalive task is alive only while main is inside the connection it
\* was created for; whenever main is about to connect, backs off or has
\* stopped, no keepalive task is left.
C27_NoKeepaliveOutsideConnection ==
    /\ ping \in {"sleeping", "waiting", "closing"} =>
          mgr \in {"recv", "dispatch", "settle", "notify", "store"}
    /\ mgr \in {"connecting", "backoff", "stopped"} => ping = "none"

C27_Witness ==
    /\ dropped /\ mgr = "connecting" /\ retry_counter = 1
    /\ ping = "none" /\ ws = "closed"

\* C28: the batch of every notification call and of every store call holds at
\* least one record, and so does the batch about to be handed to them.
C28_FanoutBatchNonEmpty ==
    /\ \A c \in 1..Len(cur.calls) : Len(cur.calls[c].batch) >= 1
    /\ mgr \in {"notify", "store"} => Len(cur.recs) >= 1

C28_Witness ==
    /\ Len(cur.calls) = 2
    /\ cur.doc # <<>> /\ cur.doc[1].transactions = <<TxS>>
    /\ Len(cur.calls[1].batch) = 1 /\ Len(cur.calls[2].batch) = 1
    /\ cur.calls[2].batch[1].transaction_type = "S"

\* C29: a store call whose write of record k fails has written the rows of
\* records 1 .. k-1, in batch order, and no other row, and the exception reaches
\* the caller; a call without failure has written one row per record.
C29_InsertRowByRow ==
    \A c \in 1..Len(cur.calls) :
        cur.calls[c].kind = "store" =>
            LET call == cur.calls[c]
                k    == call.failed
            IN  /\ Len(call.rows) = (IF k = 0 THEN Len(call.batch) ELSE k - 1)
                /\ \A i \in 1..Len(call.rows) :
                      /\ call.rows[i].row.transaction_type = call.batch[i].transaction_type
                      /\ call.rows[i].row.total_shares = call.batch[i].total_shares
                      /\ call.rows[i].row.link = call.batch[i].link
                /\ call.result = (IF k = 0 THEN "ok" ELSE "raised")

C29_Witness ==
    /\ Len(cur.calls) = 2
    /\ Len(cur.calls[2].batch) = 2
    /\ cur.calls[2].failed = 2 /\ cur.calls[2].result = "raised"
    /\ Len(cur.calls[2].rows) = 1
    /\ cur.calls[2].rows[1].row.transaction_type = "P"

\* C30: a notification call never raises: when the handling of record k fails
\* it returns False, the records before k have been notified and record k and
\* the later ones have not; without failure it returns True after all records.
C30_NotificationNeverRaises ==
    \A c \in 1..Len(cur.calls) :
        cur.calls[c].kind = "notify" =>
            LET call == cur.calls[c]
                k    == call.failed
            IN  /\ call.result \in {"ok", "false"}
                /\ call.result = "false" <=> k > 0
                /\ call.notified = (IF k = 0 THEN 1..Len(call.batch) ELSE 1..(k - 1))

C30_Witness ==
    /\ Len(cur.calls) = 2
    /\ cur.calls[1].kind = "notify" /\ Len(cur.calls[1].batch) = 2
    /\ cur.calls[1].failed = 2 /\ cur.calls[1].result = "false"
    /\ cur.calls[1].notified = {1}
    /\ cur.calls[2].kind = "store"

====
